---- MODULE Spec2Model ----
(***************************************************************************)
(* Model of src/main.py: the seasonality HTTP API.  The market-data        *)
(* collaborator (yfinance) is the environment: it holds one price history  *)
(* per ticker, which grows as trading days pass, and any single fetch may  *)
(* raise.  Each route handler is one action that reads the environment and *)
(* leaves the HTTP response in `response`.                                 *)
(*                                                                         *)
(* Numbers.  A float is <<>> (NaN) or a reduced fraction <<n, d>>, d > 0.  *)
(* Dates are day ordinals counted from Monday 2024-12-30 (day 0); the      *)
(* calendar operators are exact for 2024-12-30 .. 2026-12-31.              *)
(***************************************************************************)
EXTENDS Integers, Sequences, FiniteSets, TLC

VARIABLES hist, thisYear, request, response

vars == <<hist, thisYear, request, response>>

----------------------------------------------------------------------------
(* Bounds *)

\* total number of price points recorded over all tickers
MaxPoints == 3
Closes == {1, 2}

Tickers == {"AAA", "BBB"}
Periods == {"1d", "max"}
\* 2025-01-02, 2025-02-03, 2025-04-01, 2026-01-02, 2026-01-05
TradingDays == {3, 35, 92, 368, 371}
Years == {2025, 2026}
TickerLists == {<<"AAA">>, <<"AAA", "BBB">>, <<"BBB", "AAA">>}

----------------------------------------------------------------------------
(* Floats *)

NaN == <<>>

Abs(x) == IF x < 0 THEN -x ELSE x

RECURSIVE GCD(_, _)
GCD(a, b) == IF b = 0 THEN a ELSE GCD(b, a % b)

Rat(n, d) ==
  LET g == GCD(Abs(n), Abs(d))
      s == IF d < 0 THEN -1 ELSE 1
  IN  <<(s * n) \div g, (s * d) \div g>>

IsNaN(x) == x = NaN
RAdd(x, y) == Rat(x[1] * y[2] + y[1] * x[2], x[2] * y[2])
RSub(x, y) == Rat(x[1] * y[2] - y[1] * x[2], x[2] * y[2])
RMul(x, y) == Rat(x[1] * y[1], x[2] * y[2])
RDivInt(x, k) == Rat(x[1], x[2] * k)
RPos(x) == x[1] > 0

\* round(decimals): nearest multiple of 1/scale, ties to even
Round(x, scale) ==
  IF IsNaN(x) THEN NaN
  ELSE LET n == x[1] * scale
           d == x[2]
           q == n \div d
           r == n % d
           up == \/ 2 * r > d
                 \/ 2 * r = d /\ q % 2 = 1
       IN  Rat(IF up THEN q + 1 ELSE q, scale)

RECURSIVE RSum(_)
RSum(s) == IF s = <<>> THEN Rat(0, 1) ELSE RAdd(s[1], RSum(Tail(s)))

NotNaN(x) == ~IsNaN(x)
Positive(x) == ~IsNaN(x) /\ RPos(x)

\* Series.mean(): NaN values are skipped; NaN when nothing is left
Mean(s) ==
  LET v == SelectSeq(s, NotNaN)
  IN  IF v = <<>> THEN NaN ELSE RDivInt(RSum(v), Len(v))

Count_len(s) == Len(s)

\* Series.count(): number of non-NaN values
Count(s) == Len(SelectSeq(s, NotNaN))

\* Series.std() (ddof = 1), carried as its square, the sample variance:
\* NaN with fewer than two observations
Std(s) ==
  LET v == SelectSeq(s, NotNaN)
      m == Mean(s)
      sq == [i \in 1..Len(v) |-> RMul(RSub(v[i], m), RSub(v[i], m))]
  IN  IF Len(v) < 2 THEN NaN ELSE RDivInt(RSum(sq), Len(v) - 1)

----------------------------------------------------------------------------
(* Calendar *)

YearOf(d) == IF d < 2 THEN 2024 ELSE IF d < 367 THEN 2025 ELSE 2026

DayOfYear(d) == IF d < 2 THEN 365 + d ELSE IF d < 367 THEN d - 1 ELSE d - 366

MonthEnds == <<31, 59, 90, 120, 151, 181, 212, 243, 273, 304, 334, 365>>

MonthOf(d) ==
  IF d < 2 THEN 12
  ELSE CHOOSE m \in 1..12 :
         /\ DayOfYear(d) <= MonthEnds[m]
         /\ m > 1 => DayOfYear(d) > MonthEnds[m - 1]

MonthNames == <<"January", "February", "March", "April", "May", "June", "July",
                "August", "September", "October", "November", "December">>

MonthNameOf(d) == MonthNames[MonthOf(d)]

QuarterOf(d) == (MonthOf(d) - 1) \div 3 + 1

\* Monday-to-Sunday week containing day d, counted from the week of day 0
WeekBin(d) == d \div 7

\* ISO 8601 week number: ISO year 2025 has 52 weeks and starts on day 0
IsoWeekOfBin(w) == IF w < 52 THEN w + 1 ELSE w - 51

IsoWeek(d) == IsoWeekOfBin(WeekBin(d))

----------------------------------------------------------------------------
(* Frames: a DataFrame is a sequence of rows, a row a record of its columns *)

Min(S) == CHOOSE x \in S : \A y \in S : x <= y

RECURSIVE SortedSeq(_)
SortedSeq(S) == IF S = {} THEN <<>> ELSE <<Min(S)>> \o SortedSeq(S \ {Min(S)})

Range(s) == {s[i] : i \in 1..Len(s)}

\* df[col]
Column(df, col) == [i \in 1..Len(df) |-> df[i][col]]

\* the group of key k in df.groupby(col): the rows, in order, whose col is k
RECURSIVE Rows(_, _, _)
Rows(df, col, k) ==
  IF df = <<>> THEN <<>>
  ELSE (IF df[1][col] = k THEN <<df[1]>> ELSE <<>>) \o Rows(Tail(df), col, k)

\* the group keys of df.groupby(col), ascending
Keys(df, col) == SortedSeq(Range(Column(df, col)))

\* ffill: a NaN takes the last preceding non-NaN value, if any
RECURSIVE Pad(_)
Pad(col) ==
  IF Len(col) <= 1 THEN col
  ELSE LET p == Pad(SubSeq(col, 1, Len(col) - 1))
           x == col[Len(col)]
       IN  Append(p, IF IsNaN(x) THEN p[Len(p)] ELSE x)

\* Series.pct_change() * 100 (missing closes are padded before the change is
\* taken; the first row has no return)
PctChange(col) ==
  LET p == Pad(col)
  IN  [i \in 1..Len(col) |->
         IF i = 1 \/ IsNaN(p[i]) \/ IsNaN(p[i - 1]) THEN NaN
         ELSE Rat((p[i][1] * p[i - 1][2] - p[i - 1][1] * p[i][2]) * 100,
                  p[i - 1][1] * p[i][2])]

\* (Close / Close.iloc[0] - 1) * 100
CumulativePct(col) ==
  [i \in 1..Len(col) |->
     Rat((col[i][1] * col[1][2] - col[1][1] * col[i][2]) * 100, col[1][1] * col[i][2])]

----------------------------------------------------------------------------
(* The collaborator: yf.Ticker(t).history(...) *)

\* history(period=...): the trailing window of the ticker's history; "1d" is
\* the most recent trading day, "max" everything
Window(h, period) ==
  IF period = "max" \/ Len(h) <= 1 THEN h ELSE SubSeq(h, Len(h), Len(h))

InYear(h, y) == LET ThisYear(row) == YearOf(row.date) = y IN SelectSeq(h, ThisYear)

\* a fetch either raises or returns a (possibly empty) frame
Fetch(raises, frame) == [raised |-> raises, df |-> IF raises THEN <<>> ELSE frame]

\* stock.history(period=period)
history_period(h, period, raises) == Fetch(raises, Window(h, period))

\* stock.history(start=Jan 1 of the current year, end=now)
history_ytd(h, year, raises) == Fetch(raises, InYear(h, year))

----------------------------------------------------------------------------
(* Python values returned by the aggregators *)

None == [tag |-> "None"]
ErrorDict == [tag |-> "dict", error |-> "exception"]
Records(rs) == [tag |-> "list", items |-> rs]

IsErrorDict(x) == x.tag = "dict" /\ "error" \in DOMAIN x
Truthy(x) == IF x.tag = "None" THEN FALSE
             ELSE IF x.tag = "list" THEN x.items # <<>>
             ELSE TRUE

----------------------------------------------------------------------------
(* calculate_seasonality *)

\* the frame with its Returns, Month, Year and MonthName columns
MonthlyFrame(frame) ==
  LET r == PctChange(Column(frame, "Close"))
  IN  [i \in 1..Len(frame) |->
         [date |-> frame[i].date, Close |-> frame[i].Close, Returns |-> r[i],
          Month |-> MonthOf(frame[i].date), Year |-> YearOf(frame[i].date),
          MonthName |-> MonthNameOf(frame[i].date)]]

\* (x > 0).sum() / len(x) * 100 over the Returns of one group
WinRate(x) == Rat(Len(SelectSeq(x, Positive)) * 100, Len(x))

MonthlyRecord(df, m) ==
  LET g == Rows(df, "Month", m)
      x == Column(g, "Returns")
  IN  [Month |-> m,
       avg_return |-> Round(Mean(x), 10000),
       std_dev |-> Std(x),
       count |-> Count(x),
       month_name |-> g[1].MonthName,
       win_rate |-> Round(WinRate(x), 100)]

MonthlyStats(frame) ==
  LET df == MonthlyFrame(frame)
      months == Keys(df, "Month")
  IN  [k \in 1..Len(months) |-> MonthlyRecord(df, months[k])]

calculate_seasonality_noEmptyCheck(fetch) ==
  IF fetch.raised THEN ErrorDict ELSE Records(MonthlyStats(fetch.df))

calculate_seasonality(fetch) ==
  IF fetch.raised THEN ErrorDict
  ELSE IF fetch.df = <<>> THEN None
  ELSE Records(MonthlyStats(fetch.df))

----------------------------------------------------------------------------
(* calculate_quarterly_seasonality *)

QuarterlyFrame(frame) ==
  LET r == PctChange(Column(frame, "Close"))
  IN  [i \in 1..Len(frame) |->
         [date |-> frame[i].date, Close |-> frame[i].Close, Returns |-> r[i],
          Quarter |-> QuarterOf(frame[i].date), Year |-> YearOf(frame[i].date)]]

QuarterNames == <<"Q1", "Q2", "Q3", "Q4">>

QuarterlyRecord(df, q) ==
  LET x == Column(Rows(df, "Quarter", q), "Returns")
  IN  [Quarter |-> q,
       avg_return |-> Round(Mean(x), 10000),
       std_dev |-> Std(x),
       count |-> Count(x),
       quarter_name |-> QuarterNames[q]]

QuarterlyStats(frame) ==
  LET df == QuarterlyFrame(frame)
      quarters == Keys(df, "Quarter")
  IN  [k \in 1..Len(quarters) |-> QuarterlyRecord(df, quarters[k])]

calculate_quarterly_seasonality(fetch) ==
  IF fetch.raised THEN ErrorDict
  ELSE IF fetch.df = <<>> THEN None
  ELSE Records(QuarterlyStats(fetch.df))

----------------------------------------------------------------------------
(* calculate_ytd_trend *)

\* the current-year frame with its Cumulative, Date, Month and Week columns
YtdFrameOf(frame) ==
  LET c == CumulativePct(Column(frame, "Close"))
  IN  [i \in 1..Len(frame) |->
         [Close |-> frame[i].Close, Cumulative |-> c[i], Date |-> frame[i].date,
          Month |-> MonthNameOf(frame[i].date), Week |-> IsoWeek(frame[i].date)]]

YtdRecord(df, w) ==
  LET g == Rows(df, "Week", w)
  IN  [Week |-> w, Cumulative |-> g[Len(g)].Cumulative, Month |-> g[1].Month]

YtdTrend(frame) ==
  LET df == YtdFrameOf(frame)
      weeks == Keys(df, "Week")
  IN  [k \in 1..Len(weeks) |-> YtdRecord(df, weeks[k])]

calculate_ytd_trend(fetch) ==
  IF fetch.raised THEN ErrorDict
  ELSE IF fetch.df = <<>> THEN None
  ELSE Records(YtdTrend(fetch.df))

----------------------------------------------------------------------------
(* weekly_seasonality: the frames *)

\* df.resample('W').last(): one row per Monday-to-Sunday week from the first
\* to the last observation, holding the last close of the week (NaN for a week
\* without observations), labelled by the week bin, whose Sunday is the index
Resample(frame) ==
  LET df == [i \in 1..Len(frame) |->
               [bin |-> WeekBin(frame[i].date), Close |-> frame[i].Close]]
      first == df[1].bin
      last == df[Len(df)].bin
  IN  [i \in 1..(last - first + 1) |->
         LET g == Rows(df, "bin", first + i - 1)
         IN  [bin |-> first + i - 1,
              Close |-> IF g = <<>> THEN NaN ELSE g[Len(g)].Close]]

\* the weekly frame: resampled closes with Returns, Week and Year
WeeklyReturns(frame) ==
  LET rs == Resample(frame)
      r == PctChange(Column(rs, "Close"))
  IN  [i \in 1..Len(rs) |->
         [Close |-> rs[i].Close, Returns |-> r[i],
          Week |-> IsoWeekOfBin(rs[i].bin), Year |-> YearOf(7 * rs[i].bin + 6)]]

WeeklyAvg_sum(frame) ==
  LET df == WeeklyReturns(frame)
      weeks == Keys(df, "Week")
  IN  [k \in 1..Len(weeks) |->
         [Week |-> weeks[k],
          avg_return |-> RSum(SelectSeq(Column(Rows(df, "Week", weeks[k]), "Returns"),
                                        NotNaN))]]

\* df.groupby('Week')['Returns'].mean().fillna(0)
WeeklyAvg(frame) ==
  LET df == WeeklyReturns(frame)
      weeks == Keys(df, "Week")
  IN  [k \in 1..Len(weeks) |->
         LET m == Mean(Column(Rows(df, "Week", weeks[k]), "Returns"))
         IN  [Week |-> weeks[k],
              avg_return |-> IF IsNaN(m) THEN Rat(0, 1) ELSE m]]

\* ytd.groupby('Week')['Cumulative'].last()
YtdWeekly(frame) ==
  LET c == CumulativePct(Column(frame, "Close"))
      df == [i \in 1..Len(frame) |->
               [Cumulative |-> c[i], Week |-> IsoWeek(frame[i].date)]]
      weeks == Keys(df, "Week")
  IN  [k \in 1..Len(weeks) |->
         LET g == Rows(df, "Week", weeks[k])
         IN  [Week |-> weeks[k], ytd_return |-> g[Len(g)].Cumulative]]

\* the value of column col in the row of table t for week w, NaN if no row
Lookup(t, col, w) ==
  LET g == Rows(t, "Week", w)
  IN  IF g = <<>> THEN NaN ELSE g[1][col]

FillZero_keep(x) == x

FillZero(x) == IF IsNaN(x) THEN Rat(0, 1) ELSE x

\* pd.merge(weekly_avg, ytd_weekly, on='Week', how='outer').fillna(0)
Merge(weekly_avg, ytd_weekly) ==
  LET weeks == SortedSeq(Range(Column(weekly_avg, "Week"))
                         \cup Range(Column(ytd_weekly, "Week")))
  IN  [k \in 1..Len(weeks) |->
         [Week |-> weeks[k],
          avg_return |-> FillZero(Lookup(weekly_avg, "avg_return", weeks[k])),
          ytd_return |-> FillZero(Lookup(ytd_weekly, "ytd_return", weeks[k]))]]

----------------------------------------------------------------------------
(* HTTP responses *)

Json(status, body) == [status |-> status, body |-> body]

NoRequest == [route |-> "none"]
NoResponse == [status |-> 0]

Req(route, ticker, tickers, period, periodRaises, ytdRaises) ==
  [route |-> route, ticker |-> ticker, tickers |-> tickers, period |-> period,
   periodRaises |-> periodRaises, ytdRaises |-> ytdRaises]

\* the body of weekly_seasonality's try block, given the two fetches; the
\* second fetch is only made when the first returned data
WeeklyResponse(ticker, period, fp, fy) ==
  IF fp.raised THEN Json(400, [error |-> "exception"])
  ELSE IF fp.df = <<>> THEN Json(404, [error |-> "No data found for ticker"])
  ELSE IF fy.raised THEN Json(400, [error |-> "exception"])
  \* ytd['Close'].iloc[0] on an empty frame raises
  ELSE IF fy.df = <<>> THEN Json(400, [error |-> "exception"])
  ELSE Json(200, [ticker |-> ticker, period |-> period, analysis_type |-> "weekly",
                  weekly_avg |-> Merge(WeeklyAvg(fp.df), YtdWeekly(fy.df))])

MonthlyResponse_strict(ticker, period, avg_result, ytd_result) ==
  IF \/ avg_result = None \/ IsErrorDict(avg_result)
     \/ ytd_result = None \/ IsErrorDict(ytd_result)
  THEN Json(404, [error |-> "No historical data found"])
  ELSE Json(200, [ticker |-> ticker, period |-> period, analysis_type |-> "monthly",
                  avg_10y |-> avg_result.items, ytd_trend |-> ytd_result.items])

MonthlyResponse(ticker, period, avg_result, ytd_result) ==
  IF avg_result = None \/ IsErrorDict(avg_result)
  THEN Json(404, [error |-> "No historical data found"])
  ELSE Json(200, [ticker |-> ticker, period |-> period, analysis_type |-> "monthly",
                  avg_10y |-> avg_result.items,
                  ytd_trend |-> IF ytd_result = None \/ IsErrorDict(ytd_result)
                                THEN <<>> ELSE ytd_result.items])

QuarterlyResponse(ticker, period, result) ==
  IF result = None THEN Json(404, [error |-> "No data found for ticker"])
  ELSE IF IsErrorDict(result) THEN Json(400, [error |-> result.error])
  ELSE Json(200, [ticker |-> ticker, period |-> period, analysis_type |-> "quarterly",
                  data |-> result.items])

RECURSIVE CompareResults_abort(_, _, _, _)
CompareResults_abort(tickers, n, period, periodRaises) ==
  IF n = 0 THEN <<>>
  ELSE LET results == CompareResults_abort(tickers, n - 1, period, periodRaises)
           ticker == tickers[n]
           monthly_data == calculate_seasonality(
                             history_period(hist[ticker], period, ticker \in periodRaises))
       IN  IF Truthy(monthly_data) /\ ~IsErrorDict(monthly_data)
           THEN [t \in DOMAIN results \cup {ticker} |->
                   IF t = ticker THEN monthly_data.items ELSE results[t]]
           ELSE <<>>

\* the loop of compare_seasonality over tickers[1..n]: results as a function
\* from the tickers kept to their monthly records
RECURSIVE CompareResults(_, _, _, _)
CompareResults(tickers, n, period, periodRaises) ==
  IF n = 0 THEN <<>>
  ELSE LET results == CompareResults(tickers, n - 1, period, periodRaises)
           ticker == tickers[n]
           monthly_data == calculate_seasonality(
                             history_period(hist[ticker], period, ticker \in periodRaises))
       IN  IF Truthy(monthly_data) /\ ~IsErrorDict(monthly_data)
           THEN [t \in DOMAIN results \cup {ticker} |->
                   IF t = ticker THEN monthly_data.items ELSE results[t]]
           ELSE results

----------------------------------------------------------------------------
(* The environment *)

Points == LET n[t \in Tickers] == Len(hist[t])
          IN  n["AAA"] + n["BBB"]

\* a trading day of the current year closes for ticker t at price c
NewClose(t, d, c) ==
  /\ request = NoRequest
  /\ Points < MaxPoints
  /\ YearOf(d) = thisYear
  /\ hist[t] # <<>> => d > hist[t][Len(hist[t])].date
  /\ hist' = [hist EXCEPT ![t] = Append(@, [date |-> d, Close |-> Rat(c, 1)])]
  /\ UNCHANGED <<thisYear, request, response>>

NewYear ==
  /\ request = NoRequest
  /\ thisYear + 1 \in Years
  /\ thisYear' = thisYear + 1
  /\ UNCHANGED <<hist, request, response>>

\* the client has read the response; requests are served one at a time
Close ==
  /\ request # NoRequest
  /\ request' = NoRequest
  /\ response' = NoResponse
  /\ UNCHANGED <<hist, thisYear>>

----------------------------------------------------------------------------
(* The route handlers *)

weekly_seasonality(ticker, period, periodRaises, ytdRaises) ==
  LET fp == history_period(hist[ticker], period, periodRaises)
      fy == history_ytd(hist[ticker], thisYear, ytdRaises)
  IN  /\ request = NoRequest
      /\ ytdRaises => ~fp.raised /\ fp.df # <<>>
      /\ request' = Req("weekly", ticker, <<>>, period,
                        IF periodRaises THEN {ticker} ELSE {}, ytdRaises)
      /\ response' = WeeklyResponse(ticker, period, fp, fy)
      /\ UNCHANGED <<hist, thisYear>>

monthly_seasonality(ticker, period, periodRaises, ytdRaises) ==
  LET avg_result == calculate_seasonality(
                      history_period(hist[ticker], period, periodRaises))
      ytd_result == calculate_ytd_trend(history_ytd(hist[ticker], thisYear, ytdRaises))
  IN  /\ request = NoRequest
      /\ request' = Req("monthly", ticker, <<>>, period,
                        IF periodRaises THEN {ticker} ELSE {}, ytdRaises)
      /\ response' = MonthlyResponse(ticker, period, avg_result, ytd_result)
      /\ UNCHANGED <<hist, thisYear>>

quarterly_seasonality(ticker, period, periodRaises) ==
  LET result == calculate_quarterly_seasonality(
                  history_period(hist[ticker], period, periodRaises))
  IN  /\ request = NoRequest
      /\ request' = Req("quarterly", ticker, <<>>, period,
                        IF periodRaises THEN {ticker} ELSE {}, FALSE)
      /\ response' = QuarterlyResponse(ticker, period, result)
      /\ UNCHANGED <<hist, thisYear>>

compare_seasonality(tickers, period, periodRaises) ==
  /\ request = NoRequest
  /\ periodRaises \subseteq Range(tickers)
  /\ request' = Req("compare", "", tickers, period, periodRaises, FALSE)
  /\ response' = Json(200, [tickers |-> tickers, period |-> period,
                            comparison |-> CompareResults(tickers, Len(tickers),
                                                          period, periodRaises)])
  /\ UNCHANGED <<hist, thisYear>>

----------------------------------------------------------------------------

Init ==
  /\ hist = [t \in Tickers |-> <<>>]
  /\ thisYear = Min(Years)
  /\ request = NoRequest
  /\ response = NoResponse

Next ==
  \/ \E t \in Tickers, d \in TradingDays, c \in Closes : NewClose(t, d, c)
  \/ NewYear
  \/ Close
  \/ \E t \in Tickers, p \in Periods, pr \in BOOLEAN, yr \in BOOLEAN :
       weekly_seasonality(t, p, pr, yr)
  \/ \E t \in Tickers, p \in Periods, pr \in BOOLEAN, yr \in BOOLEAN :
       monthly_seasonality(t, p, pr, yr)
  \/ \E t \in Tickers, p \in Periods, pr \in BOOLEAN :
       quarterly_seasonality(t, p, pr)
  \/ \E ts \in TickerLists, p \in Periods, pr \in SUBSET Tickers :
       compare_seasonality(ts, p, pr)

Spec == Init /\ [][Next]_vars

----------------------------------------------------------------------------
(* What a request saw *)

Served(route) == request.route = route

\* the frame the period fetch of ticker t returned, had it not raised
PeriodFrame(t) == Window(hist[t], request.period)

\* the frame the current-year fetch returned, had it not raised
YtdFrame == InYear(hist[request.ticker], thisYear)

Outcome(t) ==
  IF t \in request.periodRaises THEN "UpstreamFailure"
  ELSE IF PeriodFrame(t) = <<>> THEN "NoData"
  ELSE "Data"

SingleTickerRoutes == {"monthly", "quarterly", "weekly"}

Higher(df, i) == df[i].Close[1] * df[i - 1].Close[2] > df[i - 1].Close[1] * df[i].Close[2]

\* return observations (rows 2..N) of df dated in month m / quarter q
MonthObs(df, m) == {i \in 2..Len(df) : MonthOf(df[i].date) = m}
QuarterObs(df, q) == {i \in 2..Len(df) : QuarterOf(df[i].date) = q}

RECURSIVE SumCounts(_)
SumCounts(recs) == IF recs = <<>> THEN 0 ELSE recs[1].count + SumCounts(Tail(recs))

----------------------------------------------------------------------------
(* C1 - error mapping of the single-ticker routes *)

\* C1: on monthly, quarterly and weekly, a period fetch that raises gives
\* status 400 with an error body; 404 is given only when the period fetch
\* returned an empty series and 200 only when it returned data.
C1_UpstreamFailureIs400 ==
  request.route \in SingleTickerRoutes =>
    /\ Outcome(request.ticker) = "UpstreamFailure" =>
         response.status = 400 /\ "error" \in DOMAIN response.body
    /\ response.status = 404 => Outcome(request.ticker) = "NoData"
    /\ response.status = 200 => Outcome(request.ticker) = "Data"

----------------------------------------------------------------------------
(* C2 - the no-data outcome *)

\* C2: on monthly, quarterly and weekly, an empty period series makes the
\* aggregator return None and the route answer 404 with an error body and
\* nothing else (for monthly exactly {"error": "No historical data found"}).
C2_NoDataIs404 ==
  (request.route \in SingleTickerRoutes /\ Outcome(request.ticker) = "NoData") =>
    /\ response.status = 404
    /\ DOMAIN response.body = {"error"}
    /\ Served("monthly") => response.body = [error |-> "No historical data found"]
    /\ calculate_seasonality(Fetch(FALSE, PeriodFrame(request.ticker))) = None
    /\ calculate_quarterly_seasonality(Fetch(FALSE, PeriodFrame(request.ticker))) = None

C2_Witness ==
  /\ Served("monthly")
  /\ Outcome(request.ticker) = "NoData"
  /\ response.status = 404

----------------------------------------------------------------------------
(* C3 - compare *)

\* C3: compare always answers 200; the keys of 'comparison' are exactly the
\* requested tickers whose period fetch returned data, each mapped to its own
\* monthly aggregation whatever happened to the others, and the body carries
\* no report of a failure.
C3_ComparePartial ==
  Served("compare") =>
    /\ response.status = 200
    /\ DOMAIN response.body = {"tickers", "period", "comparison"}
    /\ DOMAIN response.body.comparison
         = {t \in Range(request.tickers) : Outcome(t) = "Data"}
    /\ \A t \in DOMAIN response.body.comparison :
         response.body.comparison[t] = MonthlyStats(PeriodFrame(t))

C3_Witness ==
  /\ Served("compare")
  /\ request.tickers = <<"AAA", "BBB">>
  /\ Outcome("AAA") = "Data"
  /\ Outcome("BBB") = "UpstreamFailure"
  /\ DOMAIN response.body.comparison = {"AAA"}

----------------------------------------------------------------------------
(* C4 - the year-to-date companion of monthly *)

\* C4: on monthly, when the period fetch returned data the status is 200; if
\* the current-year fetch raised or returned an empty series, 'ytd_trend' is
\* the empty list and 'avg_10y' is the monthly aggregation, unchanged.
C4_YtdDegrades ==
  (Served("monthly") /\ Outcome(request.ticker) = "Data") =>
    /\ response.status = 200
    /\ (request.ytdRaises \/ YtdFrame = <<>>) =>
         /\ response.body.ytd_trend = <<>>
         /\ response.body.avg_10y = MonthlyStats(PeriodFrame(request.ticker))

C4_Witness ==
  /\ Served("monthly")
  /\ Outcome(request.ticker) = "Data"
  /\ ~request.ytdRaises
  /\ YtdFrame = <<>>
  /\ response.status = 200
  /\ response.body.ytd_trend = <<>>

----------------------------------------------------------------------------
(* C5 - monthly counts *)

\* C5: in the monthly aggregation of a series of N >= 1 points, each bucket's
\* count is the number of points at index 2..N dated in that month, and the
\* counts add up to N - 1.
C5_CountsPartition ==
  (Served("monthly") /\ response.status = 200) =>
    LET df == PeriodFrame(request.ticker)
        recs == response.body.avg_10y
    IN  /\ \A k \in 1..Len(recs) :
             recs[k].count = Cardinality(MonthObs(df, recs[k].Month))
        /\ SumCounts(recs) = Len(df) - 1

C5_Witness ==
  /\ Served("monthly")
  /\ response.status = 200
  /\ Len(PeriodFrame(request.ticker)) = 3
  /\ Len(response.body.avg_10y) = 2
  /\ response.body.avg_10y[1].count = 1

----------------------------------------------------------------------------
(* C6 - win rate *)

Wins(df, m) == {i \in MonthObs(df, m) : Higher(df, i)}

\* C6: every monthly bucket with count > 0 has
\* win_rate = round(100 * (returns > 0 in the bucket) / count, 2), also the
\* bucket of the first price point, and win_rate lies in [0, 100].
C6_WinRateOverCount ==
  (Served("monthly") /\ response.status = 200) =>
    LET df == PeriodFrame(request.ticker)
        recs == response.body.avg_10y
    IN  \A k \in 1..Len(recs) :
          recs[k].count > 0 =>
            /\ recs[k].win_rate
                 = Round(Rat(100 * Cardinality(Wins(df, recs[k].Month)), recs[k].count), 100)
            /\ recs[k].win_rate[1] >= 0
            /\ recs[k].win_rate[1] <= 100 * recs[k].win_rate[2]

----------------------------------------------------------------------------
(* C7 - empty buckets *)

\* C7: every bucket in monthly or quarterly output has count >= 1.
C7_NoEmptyBucket ==
  /\ (Served("monthly") /\ response.status = 200) =>
       \A k \in 1..Len(response.body.avg_10y) : response.body.avg_10y[k].count >= 1
  /\ (Served("quarterly") /\ response.status = 200) =>
       \A k \in 1..Len(response.body.data) : response.body.data[k].count >= 1

----------------------------------------------------------------------------
(* The weekly table *)

Table == response.body.weekly_avg

\* the two curves that weekly_seasonality joins
AvgCurve == WeeklyAvg(PeriodFrame(request.ticker))
YtdCurve == YtdWeekly(YtdFrame)

WeeksOf(t) == {t[i].Week : i \in 1..Len(t)}

Max(S) == CHOOSE x \in S : \A y \in S : x >= y

At(t, w) == CHOOSE row \in Range(t) : row.Week = w

Zero == Rat(0, 1)

----------------------------------------------------------------------------
(* C8 - the join of the two curves *)

\* the row of curve t at the nearest week <= w where t is defined
Carried(t, w) == At(t, Max({v \in WeeksOf(t) : v <= w}))
HasCarried(t, w) == \E v \in WeeksOf(t) : v <= w

----------------------------------------------------------------------------
(* C9 - what the two curves hold *)

\* the cumulative value, in percent, of calendar year y at row i of the weekly
\* frame: the product of (1 + r) over the year's returns up to row i, minus 1
RECURSIVE YearGrowth(_, _, _)
YearGrowth(rows, y, i) ==
  IF i = 0 THEN Rat(1, 1)
  ELSE LET g == YearGrowth(rows, y, i - 1)
       IN  IF rows[i].Year = y /\ ~IsNaN(rows[i].Returns)
           THEN RMul(g, RAdd(Rat(1, 1), RDivInt(rows[i].Returns, 100)))
           ELSE g

YearCumulative(rows, y, i) == RMul(RSub(YearGrowth(rows, y, i), Rat(1, 1)), Rat(100, 1))

\* the mean, over the rows of ISO week n, of their year's cumulative value
MeanOfCumulative(rows, n) ==
  LET idx == SortedSeq({i \in 1..Len(rows) : rows[i].Week = n})
  IN  Mean([k \in 1..Len(idx) |-> YearCumulative(rows, rows[idx[k]].Year, idx[k])])

CloseAt(df, b) == df[Max({i \in 1..Len(df) : WeekBin(df[i].date) <= b})].Close

\* close-to-close change of week bin b, in percent
WeekReturn(df, b) ==
  LET c == CloseAt(df, b)
      p == CloseAt(df, b - 1)
  IN  Rat((c[1] * p[2] - p[1] * c[2]) * 100, p[1] * c[2])

FirstBin(df) == WeekBin(df[1].date)
LastBin(df) == WeekBin(df[Len(df)].date)

\* the week bins of df, after its first, that carry ISO week number n
ReturnBins(df, n) == {b \in (FirstBin(df) + 1)..LastBin(df) : IsoWeekOfBin(b) = n}

RECURSIVE SumWeekReturns(_, _)
SumWeekReturns(df, B) ==
  IF B = {} THEN Zero
  ELSE RAdd(WeekReturn(df, Min(B)), SumWeekReturns(df, B \ {Min(B)}))

----------------------------------------------------------------------------
(* C10 - weekly without current-year data *)

\* C10: on weekly, when the period fetch returned data and the current-year
\* fetch returned an empty series, the status is 200 and the table has the
\* historical-average value of every week of that curve.
C10_EmptyYtdIs200 ==
  (/\ Served("weekly")
   /\ Outcome(request.ticker) = "Data"
   /\ ~request.ytdRaises
   /\ YtdFrame = <<>>) =>
    /\ response.status = 200
    /\ LET avg == AvgCurve
           table == Table
       IN  \A w \in WeeksOf(avg) :
             \E k \in 1..Len(table) :
               table[k].Week = w /\ table[k].avg_return = At(avg, w).avg_return

====
